---- MODULE Spec2Model ----
(***************************************************************************)
(* Detection post-processing of the YOLOv8 table-detection pipeline:       *)
(* the Colab inference script (resize_bicubic_max_side, iou,               *)
(* deduplicate_boxes, the per-image loop) and the Xcode CoreML pipeline    *)
(* (resizedDownwardLetterboxedWithMetadata, the per-image loop).           *)
(*                                                                         *)
(* Numbers.  Box coordinates are integers (the script converts them with   *)
(* int).  A ratio of two integers, such as an IoU or a threshold, is kept  *)
(* as the pair <<num, den>> and compared by cross-multiplication; for the  *)
(* small integers used here the comparison of the two doubles the code     *)
(* compares has the same outcome.                                          *)
(***************************************************************************)
EXTENDS Integers, Sequences, FiniteSets, TLC

VARIABLES
    boxes,        \* deduplicate_boxes: the argument boxes
    iou_thresh,   \* deduplicate_boxes: the argument iou_thresh, <<num, den>>
    final_boxes,  \* deduplicate_boxes: the local final_boxes
    pos,          \* number of elements of boxes the for loop has consumed
    kept_idx,     \* history: the positions in boxes of the elements of final_boxes
    dd_pc,        \* "loop" | "returned"
    boxes2,       \* second run of deduplicate_boxes (same geometry, other classes)
    final_boxes2,
    kept_idx2,
    rs_pc,        \* resize: "start" | "def87" | "def104" | "resized" | "raised" |
                  \*         "letterboxed" | "mapped"
    rs_by,        \* the code that computed the transform: "none" | "def87" |
                  \*         "def104" | "swift"
    img_w,        \* width and height of the image given
    img_h,
    target_size,  \* target_size / targetSize
    scale,        \* the scale returned, the double named by a reduced fraction
    new_w,        \* new_w / newWidth, new_h / newHeight
    new_h,
    x_offset,     \* xOffset and yOffset, fractions
    y_offset,
    canvas_box,   \* a box in canvas coordinates, <<x1, y1, x2, y2>> of fractions
    orig_box,     \* the box mapped to the original image
    prog,         \* the program that runs the batch: "py" | "swift"
    image_paths,  \* image_paths / imageFiles, paths <<directory, name>>
    img_idx,      \* position of the for loop in image_paths
    bt_pc,        \* "load" | "letterbox" | "infer" | "parse" | "dedupe" |
                  \*         "draw" | "write" | "done" | "aborted"
    img,          \* img / nsImage: "None" | "pixels" | "pixels+boxes"
    annotated,    \* annotatedImage: "None" | "pixels" | "pixels+boxes"
    results,      \* results.boxes / output: the candidates of the engine
    raw_boxes,    \* raw_boxes, tuples <<x1, y1, x2, y2, cls>>
    all_boxes,    \* all_boxes / detections
    out_files,    \* the files written: pairs <<output path, position of the input>>
    processed,    \* history: the positions of the inputs whose output was written
    passed,       \* history: the candidates behind the boxes given to
                  \*          deduplicate_boxes for the current image
    stages        \* history: the stages run, in order, for the image taken up
                  \*          last

dedupVars == <<boxes, iou_thresh, final_boxes, pos, kept_idx, dd_pc>>
twinVars == <<boxes2, final_boxes2, kept_idx2>>
resizeVars == <<rs_pc, rs_by, img_w, img_h, target_size, scale, new_w, new_h,
                x_offset, y_offset, canvas_box, orig_box>>
batchVars == <<prog, image_paths, img_idx, bt_pc, img, annotated, results,
               raw_boxes, all_boxes, out_files, processed, passed, stages>>
vars == <<dedupVars, twinVars, resizeVars, batchVars>>

Min(a, b) == IF a < b THEN a ELSE b
Max(a, b) == IF a > b THEN a ELSE b

(***************************************************************************)
(* Bounds of the inputs.                                                   *)
(***************************************************************************)
MaxBoxes == 3
MaxX == 3
MaxTwinBoxes == 2

\* Class ids the engine may report (two of the nine of class_names).
ClassIds == {0, 1}

\* Thresholds tried: the script's 0.6 and 0.5.
Thresholds == {<<6, 10>>, <<1, 2>>}

\* Boxes of the grid, x1 < x2, and a box whose corners int() made equal: it has
\* no area.
ZeroAreaBox == <<0, 0, 0, 1>>
GridGeoms == {g \in (0..MaxX) \X {0} \X (0..MaxX) \X {1} : g[1] < g[3]}
                 \cup {ZeroAreaBox}

\* The boxes of the documented scenarios.
BoxA == <<10, 10, 110, 110>>
BoxB == <<15, 15, 115, 115>>
BoxC == <<0, 0, 50, 50>>
BoxD == <<200, 200, 250, 250>>
ScenarioGeoms == {BoxA, BoxB, BoxC, BoxD}

WithClass(g, c) == <<g[1], g[2], g[3], g[4], c>>
Detections(geoms) == {WithClass(g, c) : g \in geoms, c \in ClassIds}

SeqsUpTo(S, n) == UNION {[1..k -> S] : k \in 0..n}

\* The lists and thresholds deduplicate_boxes is run on: the grid with the
\* thresholds above, the scenarios with these and the two ends of [0, 1].
ScenarioLists == SeqsUpTo(Detections(ScenarioGeoms), 2)
ScenarioThresholds == Thresholds \cup {<<0, 1>>, <<1, 1>>}
DedupInputs(n) ==
    (SeqsUpTo(Detections(GridGeoms), n) \X Thresholds)
        \cup (ScenarioLists \X ScenarioThresholds)

\* The inputs of the single run: grid boxes of one class id, and the scenarios
\* with both.  Lists of mixed class ids on the grid are the inputs of the twin
\* run.
OneClass(geoms) == {WithClass(g, 0) : g \in geoms}
SingleRunInputs(n) ==
    (SeqsUpTo(OneClass(GridGeoms), n) \X Thresholds)
        \cup (ScenarioLists \X ScenarioThresholds)

(***************************************************************************)
(* iou(boxA, boxB): the areas of the shapely boxes of the first four       *)
(* fields.                                                                 *)
(***************************************************************************)
Area(b) == (b[3] - b[1]) * (b[4] - b[2])

InterArea(a, b) ==
    LET w == Min(a[3], b[3]) - Max(a[1], b[1])
        h == Min(a[4], b[4]) - Max(a[2], b[2])
    IN  IF w > 0 /\ h > 0 THEN w * h ELSE 0

UnionArea(a, b) == Area(a) + Area(b) - InterArea(a, b)

\* Mutant of iou: boxes of different classes never overlap.
IouSameClass(boxA, boxB) ==
    IF boxA[5] = boxB[5] /\ UnionArea(boxA, boxB) > 0
    THEN <<InterArea(boxA, boxB), UnionArea(boxA, boxB)>>
    ELSE <<0, 1>>

iou(boxA, boxB) ==
    LET inter == InterArea(boxA, boxB)
        union == UnionArea(boxA, boxB)
    IN  IF union > 0 THEN <<inter, union>> ELSE <<0, 1>>

\* r > t and r >= t for ratios with positive denominators.
RatGT(r, t) == r[1] * t[2] > t[1] * r[2]
RatGE(r, t) == r[1] * t[2] >= t[1] * r[2]

\* Mutant of Exceeds: the comparison slipped to >=.
ExceedsOrEqual(r, t) == RatGE(r, t)

\* iou(box, kept) > iou_thresh
Exceeds(r, t) == RatGT(r, t)

\* Mutant of Keep: the box is compared with the first kept box only.
KeepFirstOnly(box, final, thr) ==
    final = <<>> \/ ~Exceeds(iou(box, final[1]), thr)

\* Mutant of Keep: only the most recently kept box is compared.
KeepLastOnly(box, final, thr) ==
    final = <<>> \/ ~Exceeds(iou(box, final[Len(final)]), thr)

\* The inner loop: keep stays True unless some kept box overlaps box by more
\* than the threshold.
Keep(box, final, thr) ==
    \A k \in 1..Len(final) : ~Exceeds(iou(box, final[k]), thr)

\* Mutant of AppendKept: the box is put in front.
PrependKept(final, box) == <<box>> \o final

\* final_boxes.append(box)
AppendKept(final, box) == Append(final, box)

\* Whole function, as the fold of the loop body over boxes.
RECURSIVE DedupFrom(_, _, _, _)
DedupFrom(bs, n, out, t) ==
    IF n > Len(bs) THEN out
    ELSE DedupFrom(bs, n + 1,
                   IF Keep(bs[n], out, t) THEN AppendKept(out, bs[n]) ELSE out,
                   t)

deduplicate_boxes(lst, th) == DedupFrom(lst, 1, <<>>, th)

(***************************************************************************)
(* deduplicate_boxes, one iteration of the for loop per step.              *)
(***************************************************************************)
DedupInit ==
    /\ \E inp \in SingleRunInputs(MaxBoxes) : boxes = inp[1] /\ iou_thresh = inp[2]
    /\ final_boxes = <<>>
    /\ pos = 0
    /\ kept_idx = <<>>
    /\ dd_pc = "loop"

DedupIter ==
    /\ dd_pc = "loop"
    /\ pos < Len(boxes)
    /\ LET box == boxes[pos + 1]
       IN  IF Keep(box, final_boxes, iou_thresh)
           THEN /\ final_boxes' = AppendKept(final_boxes, box)
                /\ kept_idx' = Append(kept_idx, pos + 1)
           ELSE UNCHANGED <<final_boxes, kept_idx>>
    /\ pos' = pos + 1
    /\ UNCHANGED <<boxes, iou_thresh, dd_pc>>

DedupReturn ==
    /\ dd_pc = "loop"
    /\ pos = Len(boxes)
    /\ dd_pc' = "returned"
    /\ UNCHANGED <<boxes, iou_thresh, final_boxes, pos, kept_idx>>

DedupNext ==
    \/ DedupIter /\ UNCHANGED <<twinVars, resizeVars, batchVars>>
    \/ DedupReturn /\ UNCHANGED <<twinVars, resizeVars, batchVars>>

\* The variables of the resize functions, while they are not running.
ResizeIdle ==
    /\ rs_pc = "start" /\ rs_by = "none"
    /\ img_w = 1 /\ img_h = 1 /\ target_size = 1
    /\ scale = <<1, 1>> /\ new_w = 0 /\ new_h = 0
    /\ x_offset = <<0, 1>> /\ y_offset = <<0, 1>>
    /\ canvas_box = <<>> /\ orig_box = <<>>

TwinIdle == boxes2 = <<>> /\ final_boxes2 = <<>> /\ kept_idx2 = <<>>

\* The variables of the per-image loops, while no batch runs.
BatchIdle ==
    /\ prog = "py" /\ image_paths = <<>> /\ img_idx = 1 /\ bt_pc = "done"
    /\ img = "None" /\ annotated = "None"
    /\ results = <<>> /\ raw_boxes = <<>> /\ all_boxes = <<>>
    /\ out_files = {} /\ processed = {} /\ passed = <<>> /\ stages = <<>>

InitDedup == DedupInit /\ TwinIdle /\ ResizeIdle /\ BatchIdle

SpecDedup == InitDedup /\ [][DedupNext]_vars

(***************************************************************************)
(* Two runs of deduplicate_boxes side by side, on lists with the same      *)
(* boxes at every position and any class ids, iteration by iteration.      *)
(***************************************************************************)
Geom(b) == <<b[1], b[2], b[3], b[4]>>

SameGeometry(bs, cs) ==
    /\ Len(bs) = Len(cs)
    /\ \A k \in 1..Len(bs) : Geom(bs[k]) = Geom(cs[k])

Relabellings(bs) ==
    {[k \in 1..Len(bs) |-> WithClass(Geom(bs[k]), cs[k])] :
        cs \in [1..Len(bs) -> ClassIds]}

TwinInit ==
    /\ \E inp \in DedupInputs(MaxTwinBoxes) : boxes = inp[1] /\ iou_thresh = inp[2]
    /\ boxes2 \in Relabellings(boxes)
    /\ final_boxes = <<>> /\ final_boxes2 = <<>>
    /\ kept_idx = <<>> /\ kept_idx2 = <<>>
    /\ pos = 0
    /\ dd_pc = "loop"

TwinIter ==
    /\ DedupIter
    /\ LET box == boxes2[pos + 1]
       IN  IF Keep(box, final_boxes2, iou_thresh)
           THEN /\ final_boxes2' = AppendKept(final_boxes2, box)
                /\ kept_idx2' = Append(kept_idx2, pos + 1)
           ELSE UNCHANGED <<final_boxes2, kept_idx2>>
    /\ UNCHANGED boxes2

TwinReturn == DedupReturn /\ UNCHANGED twinVars

TwinNext ==
    \/ TwinIter /\ UNCHANGED <<resizeVars, batchVars>>
    \/ TwinReturn /\ UNCHANGED <<resizeVars, batchVars>>

InitTwin == TwinInit /\ ResizeIdle /\ BatchIdle

SpecTwin == InitTwin /\ [][TwinNext]_vars

(***************************************************************************)
(* Double arithmetic.  scale = target_size / max_side and int(w * scale)    *)
(* are computed in IEEE-754 binary64: a positive double is                  *)
(* [m |-> its 53 significand bits, most significant first, e |-> the       *)
(* exponent of the first bit].  Division and multiplication round to        *)
(* nearest, ties to even; int() and Int() truncate.                         *)
(***************************************************************************)
SigBits == 53

\* Parameter names differ from operator to operator on purpose: TLC evaluates
\* arguments lazily and confuses equal names across a recursive call.
RECURSIVE Pow2(_)
Pow2(pk) == IF pk = 0 THEN 1 ELSE 2 * Pow2(pk - 1)

\* Largest k with d * 2^k <= n (n >= d > 0).
RECURSIVE ShiftUp(_, _)
ShiftUp(un, ud) == IF 2 * ud <= un THEN 1 + ShiftUp(un, 2 * ud) ELSE 0

\* Smallest k with n * 2^k >= d (0 < n).
RECURSIVE ShiftDown(_, _)
ShiftDown(sn, sd) == IF sn >= sd THEN 0 ELSE 1 + ShiftDown(2 * sn, sd)

\* The next count bits of r / dv (r < dv), and the remainder they leave.
RECURSIVE DivBits(_, _, _)
DivBits(r, dv, count) ==
    IF count = 0 THEN <<>>
    ELSE IF 2 * r >= dv THEN <<1>> \o DivBits(2 * r - dv, dv, count - 1)
    ELSE <<0>> \o DivBits(2 * r, dv, count - 1)

RECURSIVE DivRem(_, _, _)
DivRem(rr, rd, rc) ==
    IF rc = 0 THEN rr
    ELSE IF 2 * rr >= rd THEN DivRem(2 * rr - rd, rd, rc - 1)
    ELSE DivRem(2 * rr, rd, rc - 1)

\* bits + 1; a carry out of the first bit is the result's extra first bit.
RECURSIVE IncBits(_, _)
IncBits(ib, ik) ==
    IF ik = 0 THEN <<1>> \o ib
    ELSE IF ib[ik] = 0 THEN [ib EXCEPT ![ik] = 1]
    ELSE IncBits([ib EXCEPT ![ik] = 0], ik - 1)

\* bits + 1 as a double: a carry out of the first bit moves the exponent.
Renorm(inc, ne) ==
    IF Len(inc) > SigBits
    THEN [m |-> SubSeq(inc, 1, SigBits), e |-> ne + 1]
    ELSE [m |-> inc, e |-> ne]

\* The double of first bit exponent re nearest to the number whose leading
\* bits are rb (SigBits of them), given whether the rest is above or at half a
\* unit of the last bit.
RoundBits(rb, re, aboveHalf, atHalf) ==
    IF aboveHalf \/ (atHalf /\ rb[SigBits] = 1)
    THEN Renorm(IncBits(rb, SigBits), re)
    ELSE [m |-> rb, e |-> re]

QuotRound(qb, qr, qd, qe) == RoundBits(qb, qe, 2 * qr > qd, 2 * qr = qd)

\* nn / dd for 1 <= nn / dd < 2, times 2^de.
DivRound(nn, dd, de) ==
    QuotRound(<<1>> \o DivBits(nn - dd, dd, SigBits - 1),
              DivRem(nn - dd, dd, SigBits - 1), dd, de)

\* num / den for positive integers, as the double the division returns.
FDiv(num, den) ==
    IF num >= den
    THEN DivRound(num, den * Pow2(ShiftUp(num, den)), ShiftUp(num, den))
    ELSE DivRound(num * Pow2(ShiftDown(num, den)), den, 0 - ShiftDown(num, den))

\* The bits of a positive integer, most significant first.
RECURSIVE IntBits(_)
IntBits(bn) == IF bn = 0 THEN <<>> ELSE Append(IntBits(bn \div 2), bn % 2)

Reverse(sq) == [ri \in 1..Len(sq) |-> sq[Len(sq) + 1 - ri]]

\* f * mb[1..mk] + carry, last bit first.
RECURSIVE MulBitsRev(_, _, _, _)
MulBitsRev(mb, mk, f, carry) ==
    IF mk = 0 THEN Reverse(IntBits(carry))
    ELSE <<(mb[mk] * f + carry) % 2>>
             \o MulBitsRev(mb, mk - 1, f, (mb[mk] * f + carry) \div 2)

\* f * mb, first bit first.
MulBits(pm, pf) == Reverse(MulBitsRev(pm, SigBits, pf, 0))

AnyOne(ab, from) == \E ak \in from..Len(ab) : ab[ak] = 1

\* The product bits pb, whose last bit has the weight of the last bit of a
\* double of first bit exponent xe, rounded to a double.
ProdRound(pb, xe) ==
    IF Len(pb) = SigBits THEN [m |-> pb, e |-> xe]
    ELSE RoundBits(SubSeq(pb, 1, SigBits), xe + (Len(pb) - SigBits),
                   pb[SigBits + 1] = 1 /\ AnyOne(pb, SigBits + 2),
                   pb[SigBits + 1] = 1 /\ ~AnyOne(pb, SigBits + 2))

\* w * x for a positive integer w (converted exactly) and a double x.
FMulInt(w, x) == ProdRound(MulBits(x.m, w), x.e)

RECURSIVE BitsValue(_, _)
BitsValue(vb, vk) == IF vk = 0 THEN 0 ELSE 2 * BitsValue(vb, vk - 1) + vb[vk]

\* Mutant of Trunc: rounds to nearest instead of truncating.
RoundNearest(y) ==
    IF y.e < -1 THEN 0
    ELSE IF y.e = -1 THEN 1
    ELSE BitsValue(y.m, y.e + 1) + y.m[y.e + 2]

\* int(y), Int(y): the integer part of a positive double below 2^31.
Trunc(y) == IF y.e < 0 THEN 0 ELSE BitsValue(y.m, y.e + 1)

(***************************************************************************)
(* Fractions <<num, den>>, den > 0, kept reduced.                          *)
(***************************************************************************)
RECURSIVE GCD(_, _)
GCD(ga, gb) == IF gb = 0 THEN ga ELSE GCD(gb, ga % gb)

Abs(z) == IF z < 0 THEN 0 - z ELSE z

Reduce(zn, zd) ==
    IF zn = 0 THEN <<0, 1>>
    ELSE <<zn \div GCD(Abs(zn), zd), zd \div GCD(Abs(zn), zd)>>

Frac(k) == <<k, 1>>
FracEq(fa, fb) == fa[1] * fb[2] = fb[1] * fa[2]
FracLess(fa, fb) == fa[1] * fb[2] < fb[1] * fa[2]
FracAdd(fa, fb) == Reduce(fa[1] * fb[2] + fb[1] * fa[2], fa[2] * fb[2])
FracSub(fa, fb) == Reduce(fa[1] * fb[2] - fb[1] * fa[2], fa[2] * fb[2])
\* fa / fb, fb > 0
FracDiv(fa, fb) == Reduce(fa[1] * fb[2], fa[2] * fb[1])
FracClamp(fa, lo, hi) ==
    IF FracLess(fa, lo) THEN lo ELSE IF FracLess(hi, fa) THEN hi ELSE fa

(***************************************************************************)
(* The resize functions.  The Colab script defines                          *)
(* resize_bicubic_max_side twice; a call runs the definition the name is    *)
(* bound to at that point.  The Xcode pipeline has                          *)
(* resizedDownwardLetterboxedWithMetadata.  A scale is the double n / d,    *)
(* named by the reduced fraction <<n, d>>: 1.0 is <<1, 1>>.                 *)
(***************************************************************************)
MaxDim == 22
SmallTarget == 15
DefaultTarget87 == 1600
DefaultTarget104 == 1280

\* Images: every size of the grid, the 1920x1440 of the test set and 640x480.
ImageSizes == ((1..MaxDim) \X (1..MaxDim)) \cup {<<1920, 1440>>, <<640, 480>>}
TargetSizes == {SmallTarget, DefaultTarget104, DefaultTarget87}

\* Mutant of ScaledSize: rounds to nearest.
ScaledSizeRounded(side, sc) == RoundNearest(FMulInt(side, FDiv(sc[1], sc[2])))

\* int(w * scale), Int(originalWidth * scale)
ScaledSize(side, sc) == Trunc(FMulInt(side, FDiv(sc[1], sc[2])))

\* Mutant of ScaleDownOnly: the test is missing, as in the second definition.
ScaleAlways(maxSide, target) == Reduce(target, maxSide)

\* scale of the first definition and of the Swift helper:
\* target / max_side if max_side > target, else 1.0
ScaleDownOnly(maxSide, target) ==
    IF maxSide > target THEN Reduce(target, maxSide) ELSE <<1, 1>>

\* scale of the second definition: target_size / max(h, w)
ScaleToTarget(maxSide, target) == Reduce(target, maxSide)

\* (CGFloat(targetSize) - CGFloat(newWidth)) / 2.0
PadOffset(target, side) == Reduce(target - side, 2)

ResizeInit ==
    /\ rs_pc = "start" /\ rs_by = "none"
    /\ \E sz \in ImageSizes : img_w = sz[1] /\ img_h = sz[2]
    /\ target_size \in TargetSizes
    /\ scale = <<1, 1>> /\ new_w = 0 /\ new_h = 0
    /\ x_offset = <<0, 1>> /\ y_offset = <<0, 1>>
    /\ canvas_box = <<>> /\ orig_box = <<>>

resultVars == <<rs_by, scale, new_w, new_h, x_offset, y_offset, canvas_box, orig_box>>
inputVars == <<img_w, img_h, target_size>>

\* The cell "Resizes downwards but not upwards" runs: the name is bound to the
\* first definition.
PyDefineFirst ==
    /\ rs_pc = "start"
    /\ rs_pc' = "def87"
    /\ UNCHANGED <<resultVars, inputVars>>

\* The cell "Script for running inference" runs: the name is bound again.
PyDefineSecond ==
    /\ rs_pc = "def87"
    /\ rs_pc' = "def104"
    /\ UNCHANGED <<resultVars, inputVars>>

\* cv2.resize raises on an empty size.
AfterCvResize(nw, nh) == IF nw = 0 \/ nh = 0 THEN "raised" ELSE "resized"

\* A call of resize_bicubic_max_side(img, target_size) while the name is bound
\* to the first definition.
PyCallFirst ==
    /\ rs_pc = "def87"
    /\ rs_by' = "def87"
    /\ scale' = ScaleDownOnly(Max(img_h, img_w), target_size)
    /\ IF Max(img_h, img_w) > target_size
       THEN /\ new_w' = ScaledSize(img_w, scale')
            /\ new_h' = ScaledSize(img_h, scale')
            /\ rs_pc' = AfterCvResize(new_w', new_h')
       ELSE /\ new_w' = img_w
            /\ new_h' = img_h
            /\ rs_pc' = "resized"
    /\ UNCHANGED <<x_offset, y_offset, canvas_box, orig_box, inputVars>>

\* A call while the name is bound to the second definition.
PyCallSecond ==
    /\ rs_pc = "def104"
    /\ rs_by' = "def104"
    /\ scale' = ScaleToTarget(Max(img_h, img_w), target_size)
    /\ new_w' = ScaledSize(img_w, scale')
    /\ new_h' = ScaledSize(img_h, scale')
    /\ rs_pc' = AfterCvResize(new_w', new_h')
    /\ UNCHANGED <<x_offset, y_offset, canvas_box, orig_box, inputVars>>

\* nsImage.resizedDownwardLetterboxedWithMetadata(to: targetSize)
SwiftLetterbox ==
    /\ rs_pc = "start"
    /\ rs_by' = "swift"
    /\ scale' = ScaleDownOnly(Max(img_w, img_h), target_size)
    /\ new_w' = ScaledSize(img_w, scale')
    /\ new_h' = ScaledSize(img_h, scale')
    /\ x_offset' = PadOffset(target_size, new_w')
    /\ y_offset' = PadOffset(target_size, new_h')
    /\ rs_pc' = "letterboxed"
    /\ UNCHANGED <<canvas_box, orig_box, inputVars>>

(***************************************************************************)
(* The mapping of a canvas box to the original image, with the transform    *)
(* just computed: x_orig = (x_canvas - padX) / scale, clamped to the image. *)
(***************************************************************************)
ToOriginal(c, pad, sc, limit) ==
    FracClamp(FracDiv(FracSub(c, pad), sc), Frac(0), Frac(limit))

\* The canvas boxes mapped: the resized image as placed on the canvas, and the
\* whole canvas.
PlacedBox ==
    <<x_offset, y_offset, FracAdd(x_offset, Frac(new_w)), FracAdd(y_offset, Frac(new_h))>>

CanvasBoxes ==
    {PlacedBox} \cup
    (IF rs_by = "swift"
     THEN {<<Frac(0), Frac(0), Frac(target_size), Frac(target_size)>>}
     ELSE {})

MapToOriginal ==
    /\ rs_pc \in {"resized", "letterboxed"}
    /\ \E cb \in CanvasBoxes :
          /\ canvas_box' = cb
          /\ orig_box' = <<ToOriginal(cb[1], x_offset, scale, img_w),
                           ToOriginal(cb[2], y_offset, scale, img_h),
                           ToOriginal(cb[3], x_offset, scale, img_w),
                           ToOriginal(cb[4], y_offset, scale, img_h)>>
    /\ rs_pc' = "mapped"
    /\ UNCHANGED <<rs_by, scale, new_w, new_h, x_offset, y_offset, inputVars>>

ResizeNext ==
    \/ PyDefineFirst /\ UNCHANGED <<dedupVars, twinVars, batchVars>>
    \/ PyDefineSecond /\ UNCHANGED <<dedupVars, twinVars, batchVars>>
    \/ PyCallFirst /\ UNCHANGED <<dedupVars, twinVars, batchVars>>
    \/ PyCallSecond /\ UNCHANGED <<dedupVars, twinVars, batchVars>>
    \/ SwiftLetterbox /\ UNCHANGED <<dedupVars, twinVars, batchVars>>
    \/ MapToOriginal /\ UNCHANGED <<dedupVars, twinVars, batchVars>>

DedupIdle ==
    /\ boxes = <<>> /\ iou_thresh = <<6, 10>> /\ final_boxes = <<>>
    /\ pos = 0 /\ kept_idx = <<>> /\ dd_pc = "returned"

InitResize == ResizeInit /\ DedupIdle /\ TwinIdle /\ BatchIdle

SpecResize == InitResize /\ [][ResizeNext]_vars

(***************************************************************************)
(* The per-image loops: "for img_path in image_paths" of the script and    *)
(* "for imageURL in imageFiles" of the CoreML pipeline.  One action is one *)
(* statement group of the loop body.                                       *)
(***************************************************************************)
MaxImages == 2
MaxResults == 2

\* confidenceThreshold: 0.3, in hundredths
ConfidenceThreshold == 30

\* Confidences of the candidates of the engine, in hundredths.
Confidences == {28, 90}

\* glob "**/*.jpeg" with recursive=True: files of extract_dir and of the
\* directories below it.
PyDirs == {"extract_dir", "extract_dir/sub"}
PyNames == {"x.jpeg", "y.jpeg"}

\* contentsOfDirectory(at: imagesFolder) filtered by extension: files of the
\* one folder.
SwiftDirs == {"imagesFolder"}
SwiftNames == {"x.jpg", "y.png"}

PathsOf(pg) == IF pg = "py" THEN PyDirs \X PyNames ELSE SwiftDirs \X SwiftNames

\* The lists of distinct paths a listing can return.
Listings(pg) ==
    {l \in SeqsUpTo(PathsOf(pg), MaxImages) :
        \A i, j \in 1..Len(l) : i # j => l[i] # l[j]}

\* Coordinates of the engine are floats: here multiples of one half.
Half(hn) == Reduce(hn, 2)
EngineGeoms ==
    {<<Half(21), Half(21), Half(221), Half(221)>>,
     <<Half(30), Half(31), Half(230), Half(231)>>,
     <<Half(400), Half(400), Half(501), Half(501)>>}

Candidates == [xyxy : EngineGeoms, cls : ClassIds, conf : Confidences]

\* int(v) of a float: truncation toward zero
IntOf(fv) == IF fv[1] >= 0 THEN fv[1] \div fv[2] ELSE -((-fv[1]) \div fv[2])

\* x1, y1, x2, y2 = map(int, box.xyxy[0]); cls = int(box.cls[0])
RawBox(cand) ==
    <<IntOf(cand.xyxy[1]), IntOf(cand.xyxy[2]), IntOf(cand.xyxy[3]),
      IntOf(cand.xyxy[4]), cand.cls>>

\* os.path.join(output_dir, os.path.basename(img_path))
PyOutputPath(path) == <<"output_dir", "", path[2]>>

\* imagesFolder.appendingPathComponent("pred_\(imageURL.lastPathComponent)")
SwiftOutputPath(path) == <<"imagesFolder", "pred_", path[2]>>

OutputPath(pg, path) == IF pg = "py" THEN PyOutputPath(path) ELSE SwiftOutputPath(path)

BatchInit ==
    /\ prog \in {"py", "swift"}
    /\ image_paths \in Listings(prog)
    /\ img_idx = 1
    /\ bt_pc = "load"
    /\ img = "None" /\ annotated = "None"
    /\ results = <<>> /\ raw_boxes = <<>> /\ all_boxes = <<>>
    /\ out_files = {} /\ processed = {} /\ passed = <<>> /\ stages = <<>>

InLoop(pg, at) == prog = pg /\ bt_pc = at /\ img_idx <= Len(image_paths)

listingVars == <<prog, image_paths>>
writtenVars == <<out_files, processed>>

\* The next iteration of the for loop: the names of the body are bound again
\* before they are read, so they are put back to their first values.
NextImage ==
    /\ img_idx' = img_idx + 1
    /\ bt_pc' = "load"
    /\ img' = "None" /\ annotated' = "None"
    /\ results' = <<>> /\ raw_boxes' = <<>> /\ all_boxes' = <<>>
    /\ passed' = <<>>

\* img = cv2.imread(img_path); if img is None: continue
PyLoad ==
    /\ InLoop("py", "load")
    /\ stages' = <<>>
    /\ \/ /\ img' = "pixels"
          /\ bt_pc' = "infer"
          /\ UNCHANGED <<img_idx, annotated, results, raw_boxes, all_boxes, passed>>
       \/ NextImage
    /\ UNCHANGED <<listingVars, writtenVars>>

\* raw_boxes = []; results = model(img.copy(), verbose=False)[0]; the for loop
\* over results.boxes.  The call of the model is in no try statement.
PyInfer ==
    /\ InLoop("py", "infer")
    /\ stages' = Append(stages, "infer")
    /\ \/ \E res \in SeqsUpTo(Candidates, MaxResults) :
            /\ results' = res
            /\ raw_boxes' = [k \in 1..Len(res) |-> RawBox(res[k])]
            /\ bt_pc' = "dedupe"
       \/ /\ bt_pc' = "aborted"
          /\ UNCHANGED <<results, raw_boxes>>
    /\ UNCHANGED <<img_idx, img, annotated, all_boxes, passed, listingVars,
                   writtenVars>>

\* all_boxes = deduplicate_boxes(raw_boxes, iou_thresh=0.6)
PyDedupe ==
    /\ InLoop("py", "dedupe")
    /\ stages' = Append(stages, "dedupe")
    /\ all_boxes' = deduplicate_boxes(raw_boxes, <<6, 10>>)
    /\ passed' = results
    /\ bt_pc' = "draw"
    /\ UNCHANGED <<img_idx, img, annotated, results, raw_boxes, listingVars,
                   out_files, processed>>

\* for x1, y1, x2, y2, cls in all_boxes: cv2.rectangle(img, ...)
PyDraw ==
    /\ InLoop("py", "draw")
    /\ stages' = Append(stages, "render")
    /\ img' = IF all_boxes = <<>> THEN img ELSE "pixels+boxes"
    /\ bt_pc' = "write"
    /\ UNCHANGED <<img_idx, annotated, results, raw_boxes, all_boxes, passed,
                   listingVars, writtenVars>>

\* The file at a path is replaced by the one written last.
WriteFile(files, path, src) == {f \in files : f[1] # path} \cup {<<path, src>>}

\* cv2.imwrite(output_path, img): returns False when it cannot write.
PyWrite ==
    /\ InLoop("py", "write")
    /\ stages' = Append(stages, "write")
    /\ \/ /\ out_files' = WriteFile(out_files, PyOutputPath(image_paths[img_idx]), img_idx)
          /\ processed' = processed \cup {img_idx}
       \/ UNCHANGED <<out_files, processed>>
    /\ NextImage
    /\ UNCHANGED listingVars

\* guard let nsImage = NSImage(contentsOf: imageURL) else { continue }
SwiftLoad ==
    /\ InLoop("swift", "load")
    /\ stages' = <<>>
    /\ \/ /\ img' = "pixels"
          /\ bt_pc' = "letterbox"
          /\ UNCHANGED <<img_idx, annotated, results, raw_boxes, all_boxes, passed>>
       \/ NextImage
    /\ UNCHANGED <<listingVars, writtenVars>>

\* nsImage.resizedDownwardLetterboxedWithMetadata(to:);
\* guard let buffer = pixelBuffer else { continue }
SwiftResize ==
    /\ InLoop("swift", "letterbox")
    /\ stages' = Append(stages, "transform")
    /\ \/ /\ bt_pc' = "infer"
          /\ UNCHANGED <<img_idx, img, annotated, results, raw_boxes, all_boxes,
                         passed>>
       \/ NextImage
    /\ UNCHANGED <<listingVars, writtenVars>>

\* guard let prediction = try? model.prediction(from: input) else { continue };
\* guard let output = ...multiArrayValue else { continue }
SwiftPredict ==
    /\ InLoop("swift", "infer")
    /\ stages' = Append(stages, "infer")
    /\ \/ \E res \in SeqsUpTo(Candidates, MaxResults) :
            /\ results' = res
            /\ bt_pc' = "parse"
            /\ UNCHANGED <<img_idx, img, annotated, raw_boxes, all_boxes, passed>>
       \/ NextImage
    /\ UNCHANGED <<listingVars, writtenVars>>

\* The candidates YOLOv8OutputParser.parse keeps.
AboveThreshold(res, thr) == SelectSeq(res, LAMBDA cand : cand.conf >= thr)

\* detections = YOLOv8OutputParser.parse(rawOutput:, confidenceThreshold: 0.3, ...)
SwiftParse ==
    /\ InLoop("swift", "parse")
    /\ stages' = Append(stages, "map")
    /\ all_boxes' = AboveThreshold(results, ConfidenceThreshold)
    /\ bt_pc' = "draw"
    /\ UNCHANGED <<img_idx, img, annotated, results, raw_boxes, passed,
                   listingVars, writtenVars>>

\* annotatedImage = resizedImage.drawDetections(detections): a new image
SwiftDraw ==
    /\ InLoop("swift", "draw")
    /\ stages' = Append(stages, "render")
    /\ annotated' = IF all_boxes = <<>> THEN "pixels" ELSE "pixels+boxes"
    /\ bt_pc' = "write"
    /\ UNCHANGED <<img_idx, img, results, raw_boxes, all_boxes, passed,
                   listingVars, writtenVars>>

\* annotatedImage.saveJPG(to: outURL): a failure is printed, not thrown.
SwiftSave ==
    /\ InLoop("swift", "write")
    /\ stages' = Append(stages, "write")
    /\ \/ /\ out_files' = WriteFile(out_files, SwiftOutputPath(image_paths[img_idx]), img_idx)
          /\ processed' = processed \cup {img_idx}
       \/ UNCHANGED <<out_files, processed>>
    /\ NextImage
    /\ UNCHANGED listingVars

\* The for loop has no element left.
LoopEnd ==
    /\ bt_pc = "load"
    /\ img_idx > Len(image_paths)
    /\ bt_pc' = "done"
    /\ UNCHANGED <<img_idx, img, annotated, results, raw_boxes, all_boxes,
                   passed, stages, listingVars, writtenVars>>

otherVars == <<dedupVars, twinVars, resizeVars>>

BatchNext ==
    \/ PyLoad /\ UNCHANGED otherVars
    \/ PyInfer /\ UNCHANGED otherVars
    \/ PyDedupe /\ UNCHANGED otherVars
    \/ PyDraw /\ UNCHANGED otherVars
    \/ PyWrite /\ UNCHANGED otherVars
    \/ SwiftLoad /\ UNCHANGED otherVars
    \/ SwiftResize /\ UNCHANGED otherVars
    \/ SwiftPredict /\ UNCHANGED otherVars
    \/ SwiftParse /\ UNCHANGED otherVars
    \/ SwiftDraw /\ UNCHANGED otherVars
    \/ SwiftSave /\ UNCHANGED otherVars
    \/ LoopEnd /\ UNCHANGED otherVars

InitBatch == BatchInit /\ DedupIdle /\ TwinIdle /\ ResizeIdle

SpecBatch == InitBatch /\ [][BatchNext]_vars

(***************************************************************************)
(* Properties of deduplicate_boxes.                                        *)
(***************************************************************************)
InOutput(i) == \E k \in 1..Len(kept_idx) : kept_idx[k] = i

\* Pairs of input positions whose IoU is above the threshold.
OverlapPairs ==
    {p \in (1..Len(boxes)) \X (1..Len(boxes)) :
        p[1] < p[2] /\ RatGT(iou(boxes[p[1]], boxes[p[2]]), iou_thresh)}

IsScenarioB ==
    /\ Len(boxes) = 2
    /\ Geom(boxes[1]) = BoxA /\ Geom(boxes[2]) = BoxB
    /\ iou_thresh = <<6, 10>>

\* C1 as stated: of two input detections whose IoU exceeds the threshold at
\* most one is in the output, and if one is, it is the earlier one; for A, B
\* and 0.6 the output is [A].
C1_EarlierOfPairSurvives ==
    dd_pc = "returned" =>
        /\ \A p \in OverlapPairs :
              /\ ~(InOutput(p[1]) /\ InOutput(p[2]))
              /\ InOutput(p[2]) => InOutput(p[1])
        /\ IsScenarioB => final_boxes = <<boxes[1]>>

\* C1 amended: of two input detections whose IoU exceeds the threshold at most
\* one is in the output; the later one is in the output only when the earlier
\* one was discarded because of a kept detection before it; for A, B and 0.6
\* the output is [A].
C1_AtMostOneOfPair ==
    dd_pc = "returned" =>
        /\ \A p \in OverlapPairs :
              /\ ~(InOutput(p[1]) /\ InOutput(p[2]))
              /\ InOutput(p[2]) =>
                    \E h \in 1..(p[1] - 1) :
                        /\ InOutput(h)
                        /\ RatGT(iou(boxes[p[1]], boxes[h]), iou_thresh)
        /\ IsScenarioB => final_boxes = <<boxes[1]>>

\* C1 witness: the run has returned, and the later of two overlapping
\* detections is in the output.
C1_Witness ==
    /\ dd_pc = "returned"
    /\ \E p \in OverlapPairs : InOutput(p[2]) /\ ~InOutput(p[1])

\* C2: two input lists with the same boxes at every position keep the same
\* positions at every step, whatever their class ids.
C2_ClassBlind ==
    SameGeometry(boxes, boxes2) => kept_idx = kept_idx2

\* C2 witness: the runs have returned, the lists differ in their class ids, and
\* a detection was discarded for a kept one of another class.
C2_Witness ==
    /\ dd_pc = "returned"
    /\ boxes2 # boxes
    /\ \E p \in OverlapPairs :
          /\ InOutput(p[1]) /\ ~InOutput(p[2])
          /\ boxes[p[1]][5] # boxes[p[2]][5]
          /\ boxes2[p[1]][5] = boxes2[p[2]][5]

AllPairsWithinThreshold ==
    \A i \in 1..Len(boxes) : \A j \in 1..Len(boxes) :
        i < j => ~RatGT(iou(boxes[i], boxes[j]), iou_thresh)

\* C3: when no pair of input detections has an IoU above the threshold, the
\* output is the input, same elements in the same order.
C3_NoOverlapIdentity ==
    (dd_pc = "returned" /\ AllPairsWithinThreshold) => final_boxes = boxes

\* C3 witness: a returned run on a list where no pair is above the threshold
\* and one pair has an IoU equal to it.
C3_Witness ==
    /\ dd_pc = "returned"
    /\ AllPairsWithinThreshold
    /\ final_boxes = boxes
    /\ \E i \in 1..Len(boxes) : \E j \in 1..Len(boxes) :
          i < j /\ iou(boxes[i], boxes[j])[1] > 0
                /\ RatGE(iou(boxes[i], boxes[j]), iou_thresh)

RECURSIVE IsSubseqOf(_, _)
IsSubseqOf(s, t) ==
    IF s = <<>> THEN TRUE
    ELSE IF t = <<>> THEN FALSE
    ELSE IF Head(s) = Head(t) THEN IsSubseqOf(Tail(s), Tail(t))
    ELSE IsSubseqOf(s, Tail(t))

\* C4: at every step the kept list is an order-preserving subsequence of the
\* input consumed so far, so it is never longer than the input.
C4_KeptIsSubsequence ==
    /\ IsSubseqOf(final_boxes, SubSeq(boxes, 1, pos))
    /\ Len(final_boxes) <= pos
    /\ pos <= Len(boxes)

\* C4 witness: three detections consumed, two different ones kept, one
\* discarded.
C4_Witness ==
    /\ pos = 3
    /\ Len(final_boxes) = 2
    /\ final_boxes[1] # final_boxes[2]

(***************************************************************************)
(* Properties of the resize functions.                                     *)
(***************************************************************************)
Transformed == rs_by # "none"
MaxSide == Max(img_w, img_h)

\* floor and round-to-nearest of side * n / d over the integers.
ExactFloor(side, sc) == (side * sc[1]) \div sc[2]
ExactRound(side, sc) == (2 * side * sc[1] + sc[2]) \div (2 * sc[2])
IsWhole(side, sc) == (side * sc[1]) % sc[2] = 0

\* C5: the scale a resize function returns is targetSize / max(width, height)
\* when max(width, height) > targetSize and exactly 1.0 otherwise, so it never
\* exceeds 1.0; this for the definition of resize_bicubic_max_side bound at
\* the call and for the Swift helper.
C5_DownscaleOnly ==
    Transformed =>
        /\ scale = (IF MaxSide > target_size
                    THEN Reduce(target_size, MaxSide) ELSE <<1, 1>>)
        /\ scale[1] <= scale[2]

IsScenarioA == img_w = 1920 /\ img_h = 1440 /\ target_size = 1600

ScenarioAHolds ==
    (IsScenarioA /\ rs_by \in {"swift", "def87"}) =>
        /\ new_w = 1600 /\ new_h = 1200
        /\ rs_by = "swift" => x_offset = <<0, 1>> /\ y_offset = <<200, 1>>

\* C6 as stated: the resized dimensions are width * scale and height * scale
\* rounded to nearest; 1920x1440 with targetSize 1600 gives 1600x1200 with
\* padX = 0 and padY = 200.
C6_SizesRounded ==
    Transformed =>
        /\ new_w = ExactRound(img_w, scale)
        /\ new_h = ExactRound(img_h, scale)
        /\ ScenarioAHolds

TruncatedFrom(n, side, sc) ==
    \/ n = ExactFloor(side, sc)
    \/ n = ExactFloor(side, sc) - 1 /\ IsWhole(side, sc)

\* C6 amended: the resized dimensions are the double products width * scale
\* and height * scale truncated toward zero: floor(width * scale), or one less
\* when width * scale is a whole number and the double product falls just
\* below it; 1920x1440 with targetSize 1600 gives 1600x1200 with padX = 0 and
\* padY = 200.
C6_SizesTruncated ==
    Transformed =>
        /\ TruncatedFrom(new_w, img_w, scale)
        /\ TruncatedFrom(new_h, img_h, scale)
        /\ ScenarioAHolds

\* C6 witness: a transform was computed whose width was cut below the nearest
\* integer and whose height fell below a whole product.
C6_Witness ==
    /\ Transformed
    /\ new_w < ExactRound(img_w, scale)
    /\ new_h = ExactFloor(img_h, scale) - 1

BoxMinus(cb, dx, dy) ==
    <<FracSub(cb[1], dx), FracSub(cb[2], dy), FracSub(cb[3], dx), FracSub(cb[4], dy)>>

BoxOver(cb, sc) ==
    <<FracDiv(cb[1], sc), FracDiv(cb[2], sc), FracDiv(cb[3], sc), FracDiv(cb[4], sc)>>

C8_FilteredBeforeDedup ==
    \A k \in 1..Len(passed) : passed[k].conf >= ConfidenceThreshold

Stopped == bt_pc \in {"done", "aborted"}

\* C9: no per-image failure ends the batch: when the loop has stopped, it has
\* taken up every image of the input collection.
C9_NoFatalImageError == Stopped => img_idx > Len(image_paths)

\* C10: two distinct inputs whose outputs were written have distinct output
\* paths, and when the batch has ended there is one output file for each of
\* them.
C10_OneOutputPerInput ==
    /\ \A i, j \in processed :
          i # j => OutputPath(prog, image_paths[i]) # OutputPath(prog, image_paths[j])
    /\ bt_pc = "done" => Cardinality(out_files) = Cardinality(processed)

\* C11: the draw step leaves the image that was loaded unchanged: after it the
\* loaded buffer holds the pixels it held before, and the boxes are on a new
\* image.
C11_DrawKeepsInput == bt_pc = "write" => img = "pixels"

\* The stages of one image, in the order required.
StageOrder == <<"transform", "infer", "map", "dedupe", "render", "write">>

\* The image taken up last went through its write and its output was written.
LastImageProcessed ==
    /\ bt_pc \in {"load", "done"}
    /\ (img_idx - 1) \in processed
    /\ stages # <<>>
    /\ stages[Len(stages)] = "write"

\* C12: for every image whose output was written the stages ran in the order
\* transform, infer, map, dedupe, render, write, each of them once and none of
\* them left out.
C12_StagesInOrder == LastImageProcessed => stages = StageOrder

(***************************************************************************)
(* The greedy suppression of deduplicate_boxes.                            *)
(***************************************************************************)
Overlaps(i, j) == RatGT(iou(boxes[i], boxes[j]), iou_thresh)

KeptPositions == {kept_idx[k] : k \in 1..Len(kept_idx)}

\* C13: after any prefix of the input, no two kept detections have IoU above
\* the threshold, and every discarded detection has IoU above the threshold
\* with a kept detection that came before it; so the first detection of a
\* non-empty input is kept and the output of a non-empty input is not empty.
C13_GreedySuppression ==
    /\ final_boxes = [k \in 1..Len(kept_idx) |-> boxes[kept_idx[k]]]
    /\ \A i, j \in KeptPositions : i # j => ~Overlaps(i, j)
    /\ \A i \in (1..pos) \ KeptPositions :
          \E j \in KeptPositions : j < i /\ Overlaps(i, j)
    /\ pos >= 1 => (final_boxes # <<>> /\ kept_idx[1] = 1)
    /\ (dd_pc = "returned" /\ boxes # <<>>) => final_boxes # <<>>

\* C13 witness: the loop has returned with two detections kept and one
\* discarded.
C13_Witness ==
    /\ dd_pc = "returned"
    /\ Len(kept_idx) >= 2
    /\ Len(kept_idx) < Len(boxes)

====
